---- MODULE Spec2Model ----
(***************************************************************************)
(* Model of photobucket.Base.make_request: parameter cleaning, OAuth token *)
(* set-up, silo/host selection, signing, dispatch, and the handling of the *)
(* HTTP 301 "silo" redirect.                                               *)
(*                                                                         *)
(* Python values that may be None, a string or a list are tagged records   *)
(* [t, v]: None is ("none", <<>>), a string is ("str", <<s>>), a list of   *)
(* strings is ("list", q).  A dict is a function from its keys.            *)
(***************************************************************************)
EXTENDS Integers, Sequences, FiniteSets, TLC

\* ---------------------------------------------------------------- constants
REDIRECT == 301
NOT_REQUIRED == 0
REQUIRED == 1
OPTIONAL == 2

\* Base.DOMAIN (DOMAIN is a TLA+ keyword)
Base_DOMAIN == "api.photobucket.com"

\* Largest number of network requests one call is followed for: the server
\* answers 301 only while fewer than MaxRequests requests were sent.
MaxRequests == 3

\* ------------------------------------------------------------ Python values
None == [t |-> "none", v |-> <<>>]
Str(s) == [t |-> "str", v |-> <<s>>]
List(q) == [t |-> "list", v |-> q]

\* Python truth value of an optional string (None and '' are false).
Truthy(x) == x.t = "str" /\ x.v[1] # ""

\* x or y, for an optional string x and a string y
OrElse(x, y) == IF Truthy(x) THEN x.v[1] ELSE y

EmptyDict == [k \in {} |-> None]

\* sep.join(q) for a sequence q of strings
RECURSIVE Join(_, _)
Join(sep, q) ==
    IF q = <<>> THEN ""
    ELSE IF Len(q) = 1 THEN q[1]
    ELSE q[1] \o sep \o Join(sep, Tail(q))

\* concatenation of a sequence of characters into a string
RECURSIVE Chars(_)
Chars(q) == IF q = <<>> THEN "" ELSE Head(q) \o Chars(Tail(q))

\* Index of the first occurrence of "//" in the character sequence s, 0 if none.
RECURSIVE FindSep(_, _)
FindSep(s, i) ==
    IF i + 1 > Len(s) THEN 0
    ELSE IF s[i] = "/" /\ s[i + 1] = "/" THEN i
    ELSE FindSep(s, i + 1)

\* s.split('//') on a character sequence: the pieces, left to right.
RECURSIVE Split(_)
Split(s) ==
    LET i == FindSep(s, 1) IN
    IF i = 0 THEN <<s>>
    ELSE <<SubSeq(s, 1, i - 1)>> \o Split(SubSeq(s, i + 2, Len(s)))

\* The text after the first "//" of s (s itself has one).
AfterFirstSep(s) == SubSeq(s, FindSep(s, 1) + 2, Len(s))

\* ------------------------------------------------------------------ helpers
\* remove_empty dropping every false value (if not d[key]) instead of None only
remove_empty_Falsy(d) ==
    [k \in {j \in DOMAIN d : d[j] # None /\ d[j] # Str("")} |-> d[k]]

\* remove_empty(d): d without the keys whose value is None
remove_empty(d) == [k \in {j \in DOMAIN d : d[j] # None} |-> d[k]]

\* Base.clean_identifier
clean_identifier(identifier) ==
    IF identifier.t = "list" THEN Str(Join("%2F", identifier.v)) ELSE identifier

\* params.setdefault('format', 'json')
SetDefaultFormat(d) ==
    IF "format" \in DOMAIN d THEN d ELSE d @@ ("format" :> Str("json"))

\* if 'id' in params: params['id'] = self.clean_identifier(params['id'])
CleanId(d) ==
    IF "id" \in DOMAIN d THEN [d EXCEPT !["id"] = clean_identifier(d["id"])] ELSE d

\* The dict that lines 130-134 leave in the object bound to params.
CleanParams(d) == remove_empty(CleanId(SetDefaultFormat(d)))

\* params = params or dict(): None and the empty dict give a new dict,
\* anything else stays the caller's own object.
UsesCallerDict(arg) == arg.t = "dict" /\ DOMAIN arg.d # {}

\* Token(key=self.token, secret=self.token_secret) raises ValueError
TokenPairMissing(obj) == obj.token = None \/ obj.token_secret = None

\* the except branch raising without the test auth == REQUIRED
AuthFails_AnyAuth(obj, auth) ==
    auth \in {REQUIRED, OPTIONAL} /\ TokenPairMissing(obj)

\* the except branch that raises "Token and Token secret must be set."
AuthFails(obj, auth) ==
    auth \in {REQUIRED, OPTIONAL} /\ TokenPairMissing(obj) /\ auth = REQUIRED

\* whether the request is built with a token
HasToken(obj, auth) == auth \in {REQUIRED, OPTIONAL} /\ ~TokenPairMissing(obj)

\* req_uri = "%s%s" % (base_uri or self.URI, url)
ReqUri(obj, a) == OrElse(a.base_uri, obj.URI) \o a.url

\* host of the uri the request is sent to
TargetHost(obj, silo) == IF silo THEN obj.subdomain ELSE Base_DOMAIN

\* the signature taken over the url the request is sent to (line 164 left out)
NormalizedUrl_Target(obj, a) ==
    "http://" \o TargetHost(obj, a.silo) \o ReqUri(obj, a)

\* req.normalized_url, the url of the signature base string
NormalizedUrl(obj, a) == "http://" \o Base_DOMAIN \o ReqUri(obj, a)

\* method.lower(), on the method strings of Methods below
Lower(m) ==
    CASE m = "GET" -> "get"
      [] m = "Post" -> "post"
      [] m = "HEAD" -> "head"
      [] m = "TRACE" -> "trace"
      [] OTHER -> m

\* The names getattr(requests, name) finds, among the lower-cased method
\* names: the request functions of the requests module.  It has no trace.
RequestsAttrs == {"get", "options", "head", "post", "put", "patch", "delete"}

\* getattr with a default, which never raises AttributeError
InvalidMethod_Fallback(m) == FALSE

\* getattr(requests, method.lower()) raises AttributeError
InvalidMethod(m) == Lower(m) \notin RequestsAttrs

\* response.raise_for_status(allow_redirects=allow_redirects) raises HTTPError
RaisesHTTPError(status, allow_redirects) ==
    \/ status \in 300..399 /\ ~allow_redirects
    \/ status \in 400..599

\* every 3xx status taken for the silo redirect
IsRedirect_Any3xx(status) == status \in 300..399

\* e.response.status_code == REDIRECT
IsRedirect(status) == status = REDIRECT

\* Base.parse_response
parse_response(resp, format) ==
    IF format = Str("json")
    THEN IF resp.kind = "notjson" THEN [t |-> "ValueError"] ELSE [t |-> "obj"]
    ELSE [t |-> "str"]

-----------------------------------------------------------------------------
\* ------------------------------------------------------------- input domains
Tokens == {None, Str("tok")}
Secrets == {None, Str("toksec")}
SubdomainArgs == {None, Str("s0.photobucket.com")}
URIs == {"/album/!"}

Urls == {"/url"}
BaseUris == {None, Str("/")}
Auths == {NOT_REQUIRED, REQUIRED, OPTIONAL}
Methods == {"GET", "Post", "HEAD", "TRACE"}

Keys == {"format", "id", "aid"}
ValuesOf(k) ==
    CASE k = "format" -> {None, Str("json"), Str("xml")}
      [] k = "id" -> {None, Str("a"), List(<<"a", "b">>)}
      [] OTHER -> {None, Str("")}

Dicts ==
    UNION { {d \in [ks -> UNION {ValuesOf(k) : k \in Keys}] :
                \A k \in ks : d[k] \in ValuesOf(k)} : ks \in SUBSET Keys }

NoDict == [t |-> "none", d |-> EmptyDict]
ParamArgs == {NoDict} \cup {[t |-> "dict", d |-> d] : d \in Dicts}

\* bodies of a 301 answer; sub is the text of content.subdomain
NoBody == [kind |-> "none", sub |-> <<>>]
Bodies ==
    { [kind |-> "notjson", sub |-> <<>>],
      [kind |-> "nocontent", sub |-> <<>>],
      [kind |-> "nosubdomain", sub |-> <<>>],
      [kind |-> "ok", sub |-> <<"h", ":", "/", "/", "s", "1">>],
      [kind |-> "ok", sub |-> <<"h", ":", "/", "/", "s", "2", "/", "/", "x">>],
      [kind |-> "ok", sub |-> <<"s", "1">>] }

Statuses == {200, 301, 302, 404, 500}

NoResponse == [status |-> 0, body |-> NoBody]
NoArgs == [url |-> "", base_uri |-> None, auth |-> REQUIRED, method |-> "GET",
           silo |-> FALSE]

-----------------------------------------------------------------------------
VARIABLES
    self,          \* the instance: key, secret, token, token_secret, subdomain, URI
    ctor,          \* the subdomain argument the instance was constructed with
    pc,            \* "idle", "waiting" (a request is in flight) or "done"
    args,          \* url, base_uri, auth, method, silo of the running call
    callerArg,     \* the params argument as the caller passed it
    callerDict,    \* the caller's dict object as it is now
    params,        \* the dict bound to the local name params
    sent,          \* the network requests the running call issued
    lastResp,      \* the last answer of the server
    result         \* how the call ended

vars == <<self, ctor, pc, args, callerArg, callerDict, params, sent, lastResp, result>>

NoResult == [kind |-> "none", response |-> NoResponse]

\* Base.__init__
Base__init__(key, secret, token, token_secret, subdomain, uri) ==
    [key |-> key, secret |-> secret, token |-> token,
     token_secret |-> token_secret,
     subdomain |-> OrElse(subdomain, Base_DOMAIN), URI |-> uri]

Init ==
    /\ \E t \in Tokens, ts \in Secrets, sd \in SubdomainArgs, u \in URIs :
          /\ self = Base__init__("key", "secret", t, ts, sd, u)
          /\ ctor = sd
    /\ pc = "idle"
    /\ args = NoArgs
    /\ callerArg = NoDict
    /\ callerDict = NoDict
    /\ params = EmptyDict
    /\ sent = <<>>
    /\ lastResp = NoResponse
    /\ result = NoResult

\* the request that lines 148-169 build, sign and hand to requests
Request(obj, a, p) ==
    [host |-> TargetHost(obj, a.silo),
     path |-> ReqUri(obj, a),
     method |-> Lower(a.method),
     params |-> p,
     token |-> HasToken(obj, a.auth),
     auth |-> a.auth,
     allow_redirects |-> ~a.silo,
     signed_url |-> NormalizedUrl(obj, a)]

(***************************************************************************)
(* Lines 125-169 of make_request, entered with the instance obj, the       *)
(* arguments a and the params argument arg: the new values of the caller's *)
(* dict, the local params, pc, sent and result.                            *)
(***************************************************************************)
Enter(obj, a, arg, cur, log) ==
    LET own == UsesCallerDict(arg)
        p == CleanParams(IF own THEN arg.d ELSE EmptyDict)
        caller == IF own THEN [t |-> "dict", d |-> p] ELSE cur
    IN  IF AuthFails(obj, a.auth)
        THEN [caller |-> caller, params |-> p, pc |-> "done", sent |-> log,
              result |-> [kind |-> "PhotobucketAPIError: Token and Token secret must be set.",
                          response |-> NoResponse]]
        ELSE IF InvalidMethod(a.method)
        THEN [caller |-> caller, params |-> p, pc |-> "done", sent |-> log,
              result |-> [kind |-> "PhotobucketAPIError: Invalid Http method",
                          response |-> NoResponse]]
        ELSE [caller |-> caller, params |-> p, pc |-> "waiting",
              sent |-> Append(log, Request(obj, a, p)),
              result |-> NoResult]

\* A caller invokes make_request.
Call ==
    /\ pc = "idle"
    /\ \E u \in Urls, b \in BaseUris, au \in Auths, m \in Methods,
          s \in BOOLEAN, arg \in ParamArgs :
          LET a == [url |-> u, base_uri |-> b, auth |-> au, method |-> m, silo |-> s]
              e == Enter(self, a, arg, arg, <<>>)
          IN  /\ args' = a
              /\ callerArg' = arg
              /\ callerDict' = e.caller
              /\ params' = e.params
              /\ pc' = e.pc
              /\ sent' = e.sent
              /\ result' = e.result
    /\ lastResp' = NoResponse
    /\ UNCHANGED <<self, ctor>>

\* The server answers and raise_for_status raises nothing: the response is returned.
RespondSuccess ==
    /\ pc = "waiting"
    /\ \E st \in Statuses :
          /\ ~RaisesHTTPError(st, sent[Len(sent)].allow_redirects)
          /\ lastResp' = [status |-> st, body |-> NoBody]
    /\ pc' = "done"
    /\ result' = [kind |-> "response", response |-> lastResp']
    /\ UNCHANGED <<self, ctor, args, callerArg, callerDict, params, sent>>

\* The transport fails without an HTTP answer; the exception propagates.
RespondConnectionError ==
    /\ pc = "waiting"
    /\ lastResp' = NoResponse
    /\ pc' = "done"
    /\ result' = [kind |-> "ConnectionError", response |-> NoResponse]
    /\ UNCHANGED <<self, ctor, args, callerArg, callerDict, params, sent>>

\* the error raised without error.response = e.response
PhotobucketError_NoResponse(resp) ==
    [kind |-> "PhotobucketError", response |-> NoResponse]

\* error = PhotobucketError(e.message); error.response = e.response
PhotobucketError(resp) == [kind |-> "PhotobucketError", response |-> resp]

\* HTTPError whose status is not 301: PhotobucketError carrying the response.
RespondError ==
    /\ pc = "waiting"
    /\ \E st \in Statuses :
          /\ RaisesHTTPError(st, sent[Len(sent)].allow_redirects)
          /\ ~IsRedirect(st)
          /\ lastResp' = [status |-> st, body |-> NoBody]
    /\ pc' = "done"
    /\ result' = PhotobucketError(lastResp')
    /\ UNCHANGED <<self, ctor, args, callerArg, callerDict, params, sent>>

\* The exception that lines 181-183 raise for the 301 body, "" if none.
RedirectFailure(p, body) ==
    IF "format" \notin DOMAIN p THEN "KeyError"
    ELSE LET content == parse_response(body, p["format"]) IN
         IF content.t = "ValueError" THEN "ValueError"
         ELSE IF content.t = "str" THEN "TypeError"
         ELSE IF body.kind \in {"nocontent", "nosubdomain"} THEN "KeyError"
         ELSE IF Len(Split(body.sub)) < 2 THEN "IndexError"
         ELSE ""

\* content['content']['subdomain'].split('//')[1]
NewSubdomain(body) == Chars(Split(body.sub)[2])

\* HTTPError with status 301: store the subdomain and call make_request again.
RespondRedirect ==
    /\ pc = "waiting"
    /\ Len(sent) < MaxRequests
    /\ \E st \in Statuses, body \in Bodies :
          /\ RaisesHTTPError(st, sent[Len(sent)].allow_redirects)
          /\ IsRedirect(st)
          /\ lastResp' = [status |-> st, body |-> body]
          /\ LET failure == RedirectFailure(params, body) IN
             IF failure # ""
             THEN /\ pc' = "done"
                  /\ result' = [kind |-> failure, response |-> NoResponse]
                  /\ UNCHANGED <<self, callerDict, params, sent>>
             ELSE LET obj == [self EXCEPT !.subdomain = NewSubdomain(body)]
                      arg == [t |-> "dict", d |-> params]
                      cur == IF UsesCallerDict(callerArg) THEN arg ELSE callerDict
                      e == Enter(obj, args, arg, cur, sent)
                  IN  /\ self' = obj
                      /\ callerDict' =
                            IF UsesCallerDict(callerArg) THEN e.caller ELSE callerDict
                      /\ params' = e.params
                      /\ pc' = e.pc
                      /\ sent' = e.sent
                      /\ result' = e.result
    /\ UNCHANGED <<ctor, args, callerArg>>

\* The call is over; the caller may call again.
Return ==
    /\ pc = "done"
    /\ pc' = "idle"
    /\ args' = NoArgs
    /\ callerArg' = NoDict
    /\ callerDict' = NoDict
    /\ params' = EmptyDict
    /\ sent' = <<>>
    /\ lastResp' = NoResponse
    /\ result' = NoResult
    /\ UNCHANGED <<self, ctor>>

Next ==
    \/ Call
    \/ RespondSuccess
    \/ RespondConnectionError
    \/ RespondError
    \/ RespondRedirect
    \/ Return

Spec == Init /\ [][Next]_vars

TypeOK ==
    /\ pc \in {"idle", "waiting", "done"}
    /\ Len(sent) <= MaxRequests
    /\ pc = "waiting" => Len(sent) >= 1

-----------------------------------------------------------------------------
\* --------------------------------------------------------------- properties
AuthError == "PhotobucketAPIError: Token and Token secret must be set."
MethodError == "PhotobucketAPIError: Invalid Http method"

\* the request in flight, or the last one sent
LastSent == sent[Len(sent)]

\* the step is the arrival of an HTTPError with the given status test
ErrorArrives(st) ==
    /\ pc = "waiting"
    /\ lastResp'.status = st
    /\ st >= 400 \/ (st \in 300..399 /\ args.silo)

\* the two requests agree in everything but the host
SameLogicalRequest(r1, r2) ==
    /\ r1.method = r2.method
    /\ r1.path = r2.path
    /\ r1.params = r2.params
    /\ r1.auth = r2.auth
    /\ r1.token = r2.token

\* C1 (as claimed): when a dispatched request is answered with a 301 whose
\* JSON body has content.subdomain of the form scheme://host, the stored
\* subdomain becomes host and the next request of the call goes to host
\* with the same method, path, cleaned params and auth mode.
C1_RedirectStoresHostAndRetries ==
    [][ (/\ ErrorArrives(REDIRECT)
         /\ lastResp'.body.kind = "ok"
         /\ FindSep(lastResp'.body.sub, 1) > 1
         /\ FindSep(AfterFirstSep(lastResp'.body.sub), 1) = 0)
        => (/\ self'.subdomain = Chars(AfterFirstSep(lastResp'.body.sub))
            /\ Len(sent') = Len(sent) + 1
            /\ sent'[Len(sent')].host = self'.subdomain
            /\ SameLogicalRequest(sent'[Len(sent')], LastSent)) ]_vars

\* C2 (as claimed): one call issues at most two network requests.
C2_AtMostTwoRequests == Len(sent) <= 2

\* C3: every dispatched request is signed over http:// + DOMAIN + path,
\* whatever silo and the stored subdomain are, and is sent to the stored
\* subdomain when silo is true and to DOMAIN when it is false.
C3_SignedOverCanonicalUrl ==
    /\ \A i \in 1..Len(sent) :
          /\ sent[i].signed_url = "http://api.photobucket.com" \o sent[i].path
          /\ sent[i].path = (IF Truthy(args.base_uri) THEN "/" ELSE self.URI) \o args.url
          /\ ~args.silo => sent[i].host = "api.photobucket.com"
    /\ (sent # <<>> /\ args.silo) => LastSent.host = self.subdomain

C3_Witness ==
    /\ pc = "waiting"
    /\ args.silo
    /\ LastSent.host # "api.photobucket.com"
    /\ LastSent.signed_url = "http://api.photobucket.com/album/!/url"

\* C4: the call fails with the auth configuration error exactly when auth
\* is REQUIRED and token or token_secret is unset, before any request is
\* sent; with NOT_REQUIRED or OPTIONAL a missing pair is tolerated and the
\* request goes out without a token.
C4_AuthErrorIffRequiredAndUnset ==
    pc # "idle" =>
        /\ (result.kind = AuthError) <=>
              (args.auth = 1 /\ (self.token = None \/ self.token_secret = None))
        /\ result.kind = AuthError => sent = <<>>
        /\ (args.auth \in {0, 2} /\ (self.token = None \/ self.token_secret = None)) =>
              /\ \A i \in 1..Len(sent) : ~sent[i].token
              /\ args.method \in {"GET", "Post", "HEAD"} => sent # <<>>

C4_Witness ==
    /\ pc = "done"
    /\ result.kind = AuthError
    /\ self.token # None
    /\ self.token_secret = None

\* C5 (as claimed): every method other than GET, POST, PUT, DELETE, compared
\* case-insensitively, fails with the usage error and sends nothing.
C5_OnlyFourMethods ==
    (/\ pc # "idle"
     /\ result.kind # AuthError
     /\ Lower(args.method) \notin {"get", "post", "put", "delete"})
    => (result.kind = MethodError /\ sent = <<>>)

\* C5 (amended): every method whose lower-cased name is not an attribute of
\* the requests module fails with the usage error and sends nothing.
C5_UnknownAttributeFails ==
    (/\ pc # "idle"
     /\ result.kind # AuthError
     /\ Lower(args.method) \notin RequestsAttrs)
    => (result.kind = MethodError /\ sent = <<>> /\ pc = "done")

C5_Witness ==
    /\ pc = "done"
    /\ args.method = "TRACE"
    /\ result.kind = MethodError
    /\ sent = <<>>

\* C6: an HTTP error whose status is not 301 ends the call with a
\* PhotobucketError carrying the failed response; nothing is sent again and
\* the stored subdomain is not touched.
C6_OtherErrorsAreTerminal ==
    [][ (\E st \in Statuses \ {301} : ErrorArrives(st))
        => (/\ pc' = "done"
            /\ result'.kind = "PhotobucketError"
            /\ result'.response = lastResp'
            /\ sent' = sent
            /\ self' = self) ]_vars

C6_Witness ==
    /\ pc = "done"
    /\ result.kind = "PhotobucketError"
    /\ result.response.status = 302
    /\ Len(sent) = 1

\* C7: the params of every request sent, first attempt or retry, have no key
\* whose value was None and every key whose value was not None, the empty
\* string included.
C7_NoneDroppedOthersKept ==
    (callerArg.t = "dict") =>
        \A i \in 1..Len(sent) : \A k \in DOMAIN callerArg.d :
            /\ callerArg.d[k] = None => k \notin DOMAIN sent[i].params
            /\ callerArg.d[k] # None => k \in DOMAIN sent[i].params
            /\ callerArg.d[k] = Str("") => sent[i].params[k] = Str("")

C7_Witness ==
    /\ Len(sent) = 2
    /\ callerArg.t = "dict"
    /\ DOMAIN callerArg.d = {"id", "aid"}
    /\ callerArg.d["id"] = None
    /\ callerArg.d["aid"] = Str("")
    /\ DOMAIN sent[2].params = {"aid", "format"}

\* C8 (as claimed): after a call the caller's params mapping is what it was
\* before the call, and key, secret, token and token_secret are unchanged.
C8_CallerParamsUntouched ==
    pc = "done" =>
        /\ callerDict = callerArg
        /\ self.key = "key" /\ self.secret = "secret"

\* C9: the stored subdomain starts as the constructor's argument, or DOMAIN
\* without one, and changes only in the step that handles a 301 answer of
\* a silo request.
C9_SubdomainWrittenOnlyOn301 ==
    /\ self.subdomain = (IF ctor = None THEN "api.photobucket.com" ELSE ctor.v[1])
    /\ [][ self'.subdomain # self.subdomain
            => (pc = "waiting" /\ args.silo /\ lastResp'.status = 301) ]_vars

C9_Witness ==
    /\ ctor = None
    /\ self.subdomain = "s1"
    /\ lastResp.status = 301

\* C10 (as claimed): every request sent carries format: json when the caller
\* gave none, the caller's value otherwise; so the 301 handler finds it.
C10_FormatAlwaysPresent ==
    /\ \A i \in 1..Len(sent) :
          /\ "format" \in DOMAIN sent[i].params
          /\ sent[i].params["format"] =
                IF callerArg.t = "dict" /\ "format" \in DOMAIN callerArg.d
                THEN callerArg.d["format"] ELSE Str("json")
    /\ (pc = "done" /\ lastResp.status = 301 /\ lastResp.body.kind = "ok")
          => result.kind # "KeyError"
====
